---- MODULE Spec2Model ----
(***************************************************************************)
(* A model of tour-map (src/main.go): the waypoint merge and pruning       *)
(* pipeline run at startup, the live-feed poll loop, the image rescan,     *)
(* and the two read paths (handleUpdates, handleIndex).                    *)
(*                                                                         *)
(* Abstractions.                                                           *)
(*  - Coordinates lie on one meridian.  For two points of equal longitude  *)
(*    the haversine formula of distanceKm reduces to R * |dLat|, so the    *)
(*    distance is linear in the latitude difference.  Latitudes are        *)
(*    integers in units of 0.01 km of arc: minDistanceKm (0.02) is 2 and   *)
(*    the 10 km radius is 1000.                                            *)
(*  - Timestamps are integers 1..MaxTime; the zero time.Time is 0.         *)
(*  - File contents (codes.txt, tracking_token.txt) are sequences of       *)
(*    one-character strings, so TrimSpace and Split are computed.          *)
(***************************************************************************)
EXTENDS Integers, Sequences, FiniteSets, TLC

VARIABLES
    mainPC,          \* position of main(): "start" or "serving"
    waypoints,       \* App.waypoints: the Track
    latestWaypoint,  \* App.latestWaypoint: the Watermark (NilTime = nil)
    imageLocations,  \* App.imageLocations
    codes,           \* App.codes: the AccessCodeSet
    tokenDeleted,    \* local of periodicWaypointScan
    lastToken,       \* local of periodicWaypointScan
    resp,            \* the HTTP response of the request just handled
    poll,            \* the feed request and file write of the tick just run
    loaded,          \* the locals of loadWaypoints when it has just returned
    client,          \* a polling client of /api/updates: its cursor and what it got
    sync,            \* the mutexes and each goroutine's remaining instructions
    tt               \* TestPruneWaypoints: a test case and its result

vars == <<mainPC, waypoints, latestWaypoint, imageLocations, codes,
          tokenDeleted, lastToken, resp, poll, loaded, client, sync, tt>>

-----------------------------------------------------------------------------
(* Bounds of the model *)

MaxTime == 3
MaxLoad == 2

Times == 1..MaxTime

(* latitudes (0.01 km): 0 and 2 are exactly minDistanceKm apart, 2 and 1002 *)
(* exactly 10 km apart, 0 and 1002 more than 10 km apart                    *)
Positions == {0, 2, 1002}

Meridian == 0

-----------------------------------------------------------------------------
(* Data types *)

GPSCoords == [Latitude : Positions, Longitude : {Meridian}]

Coords(lat) == [Latitude |-> lat, Longitude |-> Meridian]

NilLocation == [nil |-> TRUE]

NilTime == -1

ZeroTime == 0

Waypoint == [Location : GPSCoords \cup {NilLocation}, Timestamp : Times]

After(t, u) == t > u

Last(s) == s[Len(s)]

-----------------------------------------------------------------------------
(* distanceKm, in units of 0.01 km, for points of one meridian *)

distanceKm(lat1, lon1, lat2, lon2) ==
    IF lat2 >= lat1 THEN lat2 - lat1 ELSE lat1 - lat2

minDistanceKm == 2

radiusKm == 1000

-----------------------------------------------------------------------------
(* pruneWaypoints *)

\* a pruning that keeps the latest waypoint of a cluster instead of the first
RECURSIVE pruneLoopKeepLatest(_, _, _)
pruneLoopKeepLatest(wps, i, prunedWaypoints) ==
    IF i > Len(wps) THEN prunedWaypoints
    ELSE LET currentWaypoint == wps[i]
             lastKeptWaypoint == Last(prunedWaypoints)
             distance == distanceKm(lastKeptWaypoint.Location.Latitude,
                                    lastKeptWaypoint.Location.Longitude,
                                    currentWaypoint.Location.Latitude,
                                    currentWaypoint.Location.Longitude)
         IN  IF distance >= minDistanceKm
             THEN pruneLoopKeepLatest(wps, i + 1,
                                      Append(prunedWaypoints, currentWaypoint))
             ELSE pruneLoopKeepLatest(wps, i + 1,
                      Append(SubSeq(prunedWaypoints, 1, Len(prunedWaypoints) - 1),
                             currentWaypoint))

\* a pruning that measures from the waypoint visited last, kept or not
RECURSIVE pruneLoopLastVisited(_, _, _)
pruneLoopLastVisited(wps, i, prunedWaypoints) ==
    IF i > Len(wps) THEN prunedWaypoints
    ELSE LET currentWaypoint == wps[i]
             lastVisitedWaypoint == wps[i - 1]
             distance == distanceKm(lastVisitedWaypoint.Location.Latitude,
                                    lastVisitedWaypoint.Location.Longitude,
                                    currentWaypoint.Location.Latitude,
                                    currentWaypoint.Location.Longitude)
         IN  IF distance >= minDistanceKm
             THEN pruneLoopLastVisited(wps, i + 1,
                                       Append(prunedWaypoints, currentWaypoint))
             ELSE pruneLoopLastVisited(wps, i + 1, prunedWaypoints)

\* a pruning that drops a waypoint exactly minDistanceKm away
RECURSIVE pruneLoopStrict(_, _, _)
pruneLoopStrict(wps, i, prunedWaypoints) ==
    IF i > Len(wps) THEN prunedWaypoints
    ELSE LET currentWaypoint == wps[i]
             lastKeptWaypoint == Last(prunedWaypoints)
             distance == distanceKm(lastKeptWaypoint.Location.Latitude,
                                    lastKeptWaypoint.Location.Longitude,
                                    currentWaypoint.Location.Latitude,
                                    currentWaypoint.Location.Longitude)
         IN  IF distance > minDistanceKm
             THEN pruneLoopStrict(wps, i + 1,
                                  Append(prunedWaypoints, currentWaypoint))
             ELSE pruneLoopStrict(wps, i + 1, prunedWaypoints)

RECURSIVE pruneLoop(_, _, _)
pruneLoop(wps, i, prunedWaypoints) ==
    IF i > Len(wps) THEN prunedWaypoints
    ELSE LET currentWaypoint == wps[i]
             lastKeptWaypoint == Last(prunedWaypoints)
             distance == distanceKm(lastKeptWaypoint.Location.Latitude,
                                    lastKeptWaypoint.Location.Longitude,
                                    currentWaypoint.Location.Latitude,
                                    currentWaypoint.Location.Longitude)
         IN  IF distance >= minDistanceKm
             THEN pruneLoop(wps, i + 1, Append(prunedWaypoints, currentWaypoint))
             ELSE pruneLoop(wps, i + 1, prunedWaypoints)

pruneWaypoints(wps) ==
    IF Len(wps) <= 1 THEN wps
    ELSE pruneLoop(wps, 2, <<wps[1]>>)

\* TestPruneWaypoints (main_test.go): pruneWaypoints applied to a test case
TestPruneWaypoints ==
    /\ ~tt.called
    /\ tt' = [tt EXCEPT !.called = TRUE, !.result = pruneWaypoints(tt.waypoints)]
    /\ UNCHANGED <<mainPC, waypoints, latestWaypoint, imageLocations, codes,
                   tokenDeleted, lastToken, resp, poll, loaded, client, sync>>

-----------------------------------------------------------------------------
(* loadWaypoints *)

\* sequences over S of length at most n
SeqsUpTo(S, n) == UNION {[1..k -> S] : k \in 0..n}

\* the records of a data file or FIT file that carry a coordinate
Located(records) == SelectSeq(records, LAMBDA wp : wp.Location # NilLocation)

MaxTimestamp(wps) ==
    CHOOSE t \in {wps[i].Timestamp : i \in 1..Len(wps)} :
        \A i \in 1..Len(wps) : wps[i].Timestamp <= t

\* slices.SortFunc by Timestamp: not stable, so any arrangement of the
\* input that is ordered by Timestamp is a possible result
SortedByTimestamp(wps) ==
    {[i \in 1..Len(wps) |-> wps[p[i]]] :
        p \in {q \in [1..Len(wps) -> 1..Len(wps)] :
                  /\ \A i, j \in 1..Len(wps) : i # j => q[i] # q[j]
                  /\ \A i \in 1..Len(wps) - 1 :
                        wps[q[i]].Timestamp <= wps[q[i + 1]].Timestamp}}

\* a merge that measures the archived waypoints against the earliest FIT
\* waypoint instead of the latest
mergeWaypointsAfterEarliest(jsonWaypoints, fitWaypoints) ==
    IF Len(fitWaypoints) > 0
    THEN LET earliestFitTime ==
                 CHOOSE t \in {fitWaypoints[i].Timestamp : i \in 1..Len(fitWaypoints)} :
                     \A i \in 1..Len(fitWaypoints) : t <= fitWaypoints[i].Timestamp
         IN  SelectSeq(jsonWaypoints,
                       LAMBDA wp : After(wp.Timestamp, earliestFitTime))
             \o fitWaypoints
    ELSE jsonWaypoints

\* allWaypoints before the sort (lines 147-168)
mergeWaypoints(jsonWaypoints, fitWaypoints) ==
    IF Len(fitWaypoints) > 0
    THEN LET latestFitTime == MaxTimestamp(fitWaypoints)
         IN  SelectSeq(jsonWaypoints,
                       LAMBDA wp : After(wp.Timestamp, latestFitTime))
             \o fitWaypoints
    ELSE jsonWaypoints

\* a load that takes the Watermark from allWaypoints instead of
\* prunedWaypoints
loadWaypointsLatestOfAll(dataFiles, fitRecords) ==
    LET jsonWaypoints == Located(dataFiles)
        fitWaypoints == Located(fitRecords)
        allWaypoints == mergeWaypoints(jsonWaypoints, fitWaypoints)
    IN  \E sorted \in SortedByTimestamp(allWaypoints) :
            LET prunedWaypoints == pruneWaypoints(sorted)
            IN  /\ latestWaypoint' =
                       IF Len(sorted) > 0
                       THEN Last(sorted).Timestamp
                       ELSE latestWaypoint
                /\ waypoints' = prunedWaypoints
                /\ loaded' = [done |-> TRUE,
                              jsonWaypoints |-> jsonWaypoints,
                              fitWaypoints |-> fitWaypoints,
                              allWaypoints |-> sorted]

loadWaypoints(dataFiles, fitRecords) ==
    LET jsonWaypoints == Located(dataFiles)
        fitWaypoints == Located(fitRecords)
        allWaypoints == mergeWaypoints(jsonWaypoints, fitWaypoints)
    IN  \E sorted \in SortedByTimestamp(allWaypoints) :
            LET prunedWaypoints == pruneWaypoints(sorted)
            IN  /\ latestWaypoint' =
                       IF Len(prunedWaypoints) > 0
                       THEN Last(prunedWaypoints).Timestamp
                       ELSE latestWaypoint
                /\ waypoints' = prunedWaypoints
                /\ loaded' = [done |-> TRUE,
                              jsonWaypoints |-> jsonWaypoints,
                              fitWaypoints |-> fitWaypoints,
                              allWaypoints |-> sorted]

-----------------------------------------------------------------------------
(* strings.TrimSpace and strings.Split on sequences of characters *)

Whitespace == {" ", "\n"}

RECURSIVE TrimLeft(_)
TrimLeft(s) ==
    IF s # <<>> /\ Head(s) \in Whitespace THEN TrimLeft(Tail(s)) ELSE s

RECURSIVE TrimRight(_)
TrimRight(s) ==
    IF s # <<>> /\ Last(s) \in Whitespace
    THEN TrimRight(SubSeq(s, 1, Len(s) - 1))
    ELSE s

TrimSpace(s) == TrimRight(TrimLeft(s))

\* strings.Split(s, "\n"): the lines of s; cur is the line being read
RECURSIVE SplitLines(_, _)
SplitLines(s, cur) ==
    IF s = <<>> THEN <<cur>>
    ELSE IF Head(s) = "\n" THEN <<cur>> \o SplitLines(Tail(s), <<>>)
         ELSE SplitLines(Tail(s), Append(cur, Head(s)))

Split(s) == SplitLines(s, <<>>)

-----------------------------------------------------------------------------
(* The environment read by the poll loop *)

\* possible contents of codes.txt
CodesFiles ==
    { <<" ", "\n">>,
      <<"a", "\n">>,
      <<" ", "a", " ", "\n", "\n", "b">> }

\* possible contents of tracking_token.txt
TokenFiles ==
    { <<>>,
      <<"t", "\n">>,
      <<" ", "u">> }

\* os.ReadFile: an error, or the content
ReadFile(contents) ==
    {[err |-> TRUE, data |-> <<>>]} \cup {[err |-> FALSE, data |-> d] : d \in contents}

\* http.Get and the decoding of its body (lines 363-394)
FeedOutcomes ==
    {[kind |-> k, wp |-> [Location |-> NilLocation, Timestamp |-> 1]] :
        k \in {"geterror", "notfound", "nonok", "bodyerror", "badjson"}}
    \cup {[kind |-> "ok", wp |-> w] : w \in Waypoint}

\* the file name a fetched waypoint is written to (line 404)
trackingFile(ts) == "tracking_" \o ToString(ts) \o ".json"

NoPoll == [requested |-> {}, answer |-> "none", fetched |-> {}, wrote |-> {}]

NoClient == [since |-> "", received |-> <<>>]

\* the goroutines of the process and its three mutexes
Procs == {"main", "periodicImageScan", "periodicWaypointScan",
          "handleUpdates", "handleIndex"}

Mutexes == {"wpMutex", "imagesMutex", "codesMutex"}

NoSync == [todo |-> [p \in Procs |-> <<>>],
           writer |-> [m \in Mutexes |-> {}],
           readers |-> [m \in Mutexes |-> {}],
           newGPSData |-> <<>>,
           walkErr |-> FALSE]

NoLoad == [done |-> FALSE, jsonWaypoints |-> <<>>, fitWaypoints |-> <<>>,
           allWaypoints |-> <<>>]

NoResponse == [kind |-> "none"]

NoTest == [waypoints |-> <<>>, called |-> FALSE, result |-> <<>>]

-----------------------------------------------------------------------------
(* periodicWaypointScan: one iteration of the ticker loop *)

\* a refresh that takes the content of codes.txt for the new set
refreshCodesReplacing(read, old) ==
    IF read.err THEN old
    ELSE LET codesText == TrimSpace(read.data)
         IN  IF codesText # <<>>
             THEN LET newCodes == Split(codesText)
                  IN  {TrimSpace(newCodes[i]) : i \in 1..Len(newCodes)} \ {<<>>}
             ELSE old

\* a refresh without the test of line 332
refreshCodesKeepingBlank(read, old) ==
    IF read.err THEN old
    ELSE LET codesText == TrimSpace(read.data)
         IN  IF codesText # <<>>
             THEN LET newCodes == Split(codesText)
                  IN  old \cup {TrimSpace(newCodes[i]) : i \in 1..Len(newCodes)}
             ELSE old

\* lines 318-339
refreshCodes(read, old) ==
    IF read.err THEN old
    ELSE LET codesText == TrimSpace(read.data)
         IN  IF codesText # <<>>
             THEN LET newCodes == Split(codesText)
                  IN  old \cup ({TrimSpace(newCodes[i]) : i \in 1..Len(newCodes)}
                                 \ {<<>>})
             ELSE old

\* a token decision that forgets that the feed has refused the token
tokenStepIgnoringDeleted(read, lastTok, deleted) ==
    IF read.err
    THEN [go |-> FALSE, token |-> <<>>, lastToken |-> lastTok, tokenDeleted |-> deleted]
    ELSE LET token == TrimSpace(read.data)
         IN  IF token # lastTok
             THEN [go |-> TRUE, token |-> token, lastToken |-> token,
                   tokenDeleted |-> FALSE]
             ELSE IF token = <<>>
             THEN [go |-> FALSE, token |-> token, lastToken |-> token,
                   tokenDeleted |-> TRUE]
             ELSE [go |-> TRUE, token |-> token, lastToken |-> lastTok,
                   tokenDeleted |-> deleted]

\* lines 341-360: the token decision; go tells whether the tick goes on to
\* the feed request
tokenStep(read, lastTok, deleted) ==
    IF read.err
    THEN [go |-> FALSE, token |-> <<>>, lastToken |-> lastTok, tokenDeleted |-> deleted]
    ELSE LET token == TrimSpace(read.data)
         IN  IF token # lastTok
             THEN [go |-> TRUE, token |-> token, lastToken |-> token,
                   tokenDeleted |-> FALSE]
             ELSE IF deleted
             THEN [go |-> FALSE, token |-> token, lastToken |-> lastTok,
                   tokenDeleted |-> deleted]
             ELSE IF token = <<>>
             THEN [go |-> FALSE, token |-> token, lastToken |-> token,
                   tokenDeleted |-> TRUE]
             ELSE [go |-> TRUE, token |-> token, lastToken |-> lastTok,
                   tokenDeleted |-> deleted]

\* a test of the Location that lets every waypoint pass
carriesAnything(fetched) == TRUE

\* an append that moves the last waypoint when the subject has not moved
appendOrMoveLast(wps, fetched) ==
    IF Len(wps) > 0 /\ Last(wps).Location = fetched.Location
    THEN Append(SubSeq(wps, 1, Len(wps) - 1), fetched)
    ELSE Append(wps, fetched)

\* line 399
appendWaypoint(wps, fetched) == Append(wps, fetched)

\* line 396: the fetched waypoint has a Location
carriesCoordinate(fetched) == fetched.Location # NilLocation

\* an admission that also takes a waypoint timed at the Watermark
admitsNotBefore(latest, fetched) ==
    latest = NilTime \/ fetched.Timestamp >= latest

\* an admission that does not look at the Watermark
admitsAny(latest, fetched) == TRUE

\* line 398: the admission rule
admits(latest, fetched) ==
    latest = NilTime \/ After(fetched.Timestamp, latest)

\* resp, poll and loaded hold the output of the step just taken; Observe
\* hands it over before the next step starts
Idle == resp = NoResponse /\ poll = NoPoll /\ loaded = NoLoad

Observe ==
    /\ ~Idle
    /\ resp' = NoResponse
    /\ poll' = NoPoll
    /\ loaded' = NoLoad
    /\ UNCHANGED <<client, sync, tt, mainPC, waypoints, latestWaypoint, imageLocations, codes,
                   tokenDeleted, lastToken>>

\* one iteration, in an environment where reading codes.txt and
\* tracking_token.txt gives one of codesReads and tokenReads and the feed
\* answers with one of feeds
waypointScanTick(codesReads, tokenReads, feeds) ==
    /\ mainPC = "serving"
    /\ Idle
    /\ \E codesRead \in codesReads, tokenRead \in tokenReads, feed \in feeds :
          LET tok == tokenStep(tokenRead, lastToken, tokenDeleted)
              decoded == tok.go /\ feed.kind = "ok"
              located == decoded /\ carriesCoordinate(feed.wp)
              accepted == located /\ admits(latestWaypoint, feed.wp)
          IN  /\ codes' = refreshCodes(codesRead, codes)
              /\ lastToken' = tok.lastToken
              /\ tokenDeleted' =
                     IF tok.go /\ feed.kind = "notfound" THEN TRUE
                     ELSE tok.tokenDeleted
              /\ waypoints' =
                     IF accepted THEN appendWaypoint(waypoints, feed.wp)
                     ELSE waypoints
              /\ latestWaypoint' =
                     IF accepted THEN feed.wp.Timestamp ELSE latestWaypoint
              /\ poll' = [requested |-> IF tok.go THEN {tok.token} ELSE {},
                          answer |-> IF tok.go THEN feed.kind ELSE "none",
                          fetched |-> IF decoded THEN {feed.wp} ELSE {},
                          wrote |-> IF located
                                    THEN {trackingFile(feed.wp.Timestamp)}
                                    ELSE {}]
    /\ UNCHANGED <<client, sync, tt, loaded, mainPC, imageLocations, resp>>

periodicWaypointScan ==
    waypointScanTick(ReadFile(CodesFiles), ReadFile(TokenFiles), FeedOutcomes)

-----------------------------------------------------------------------------
(* scanImages *)

ImageNames == {"a.jpg"}

ImageCoords == {Coords(0), Coords(2)}

\* the maps a walk of the images directory can build
ImageMaps == UNION {[S -> ImageCoords] : S \in SUBSET ImageNames}

\* filepath.WalkDir over imagesDir: an error, or the map it built
WalkImages == [err : BOOLEAN, newGPSData : ImageMaps]

scanImages(walk) ==
    imageLocations' = IF walk.err THEN imageLocations ELSE walk.newGPSData

\* lines 301-308: one iteration of the ticker loop
periodicImageScan ==
    /\ mainPC = "serving"
    /\ Idle
    /\ \E walk \in WalkImages : scanImages(walk)
    /\ UNCHANGED <<resp, poll>>
    /\ UNCHANGED <<client, sync, tt, loaded, mainPC, waypoints, latestWaypoint, codes, tokenDeleted, lastToken>>

-----------------------------------------------------------------------------
(* main: the initial data load, before the background loops and the server *)

main ==
    /\ mainPC = "start"
    /\ \E dataFiles \in SeqsUpTo(Waypoint, MaxLoad) :
          \E fitRecords \in SeqsUpTo(Waypoint, MaxLoad - Len(dataFiles)) :
             loadWaypoints(dataFiles, fitRecords)
    /\ \E walk \in WalkImages : scanImages(walk)
    /\ mainPC' = "serving"
    /\ UNCHANGED <<resp, poll, client, sync, tt>>
    /\ UNCHANGED <<codes, tokenDeleted, lastToken>>

-----------------------------------------------------------------------------
(* The query parameters *)

\* Time.Format(time.RFC3339) of a model timestamp
formatRFC3339(t) ==
    IF t = ZeroTime THEN "0001-01-01T00:00:00Z"
    ELSE "2023-12-01T10:00:0" \o ToString(t) \o "Z"

SinceParams == {"", "invalid-timestamp"} \cup {formatRFC3339(t) : t \in Times}

\* time.Parse(time.RFC3339, s)
parseRFC3339(s) ==
    IF \E t \in Times \cup {ZeroTime} : formatRFC3339(t) = s
    THEN [err |-> FALSE,
          time |-> CHOOSE t \in Times \cup {ZeroTime} : formatRFC3339(t) = s]
    ELSE [err |-> TRUE, time |-> ZeroTime]

RequestCodes == {<<>>, <<"a">>, <<"b">>}

\* app.codes[code] (lines 503 and 596): whether the code is in the set
lookupCode(code) == code \in codes

-----------------------------------------------------------------------------
(* handleUpdates *)

LatLng(wp) == <<wp.Location.Latitude, wp.Location.Longitude>>

\* lines 524-527 (and 590-593)
allLatLng(wps) == [j \in 1..Len(wps) |-> LatLng(wps[j])]

\* a since test that also passes a waypoint whose timestamp equals since
RECURSIVE sinceFilterInclusive(_, _, _)
sinceFilterInclusive(wps, sinceParam, since) ==
    IF wps = <<>> THEN <<>>
    ELSE IF sinceParam = "" \/ Head(wps).Timestamp >= since
         THEN <<LatLng(Head(wps))>>
              \o sinceFilterInclusive(Tail(wps), sinceParam, since)
         ELSE sinceFilterInclusive(Tail(wps), sinceParam, since)

\* lines 514-518 and 547-551: the positions of the waypoints of wps that
\* pass the since test, in order
RECURSIVE sinceFilter(_, _, _)
sinceFilter(wps, sinceParam, since) ==
    IF wps = <<>> THEN <<>>
    ELSE IF sinceParam = "" \/ After(Head(wps).Timestamp, since)
         THEN <<LatLng(Head(wps))>> \o sinceFilter(Tail(wps), sinceParam, since)
         ELSE sinceFilter(Tail(wps), sinceParam, since)

\* lines 531-536 and 599-606: the backward scan from Go index i; the result
\* is the Go index the loop stops at (-1 when no waypoint is beyond 10 km)
RECURSIVE geofenceScan(_, _, _)
geofenceScan(all, lastWaypoint, i) ==
    IF i < 0 THEN i
    ELSE IF distanceKm(lastWaypoint[1], lastWaypoint[2],
                       all[i + 1][1], all[i + 1][2]) > radiusKm
         THEN i
         ELSE geofenceScan(all, lastWaypoint, i - 1)

\* a keepCount without the fallback of lines 539-542
updatesKeepCountNoFallback(all) ==
    geofenceScan(all, Last(all), Len(all) - 1) + 1

\* lines 538-542
updatesKeepCount(all) ==
    LET i == geofenceScan(all, Last(all), Len(all) - 1)
        keepCount == i + 1
    IN  IF keepCount <= 0 THEN Len(all) ELSE keepCount

\* the waypoints the since test ranges over: app.waypoints (line 514) for a
\* caller with a valid code, app.waypoints[:keepCount] (line 547) otherwise
updatesEligible(wps, hasValidCode) ==
    IF hasValidCode \/ Len(wps) = 0 THEN wps
    ELSE SubSeq(wps, 1, updatesKeepCount(allLatLng(wps)))

\* a lastModified taken from the filtered result: zero when the since test
\* leaves nothing
updatesFullLastReturned(wps, sinceParam, since) ==
    LET returned == sinceFilter(updatesEligible(wps, TRUE), sinceParam, since)
    IN  [waypoints |-> returned,
         lastModified |-> IF Len(returned) > 0 THEN Last(wps).Timestamp
                          ELSE ZeroTime]

\* lines 511-521: the branch of a caller with a valid code
updatesFull(wps, sinceParam, since) ==
    [waypoints |-> sinceFilter(updatesEligible(wps, TRUE), sinceParam, since),
     lastModified |-> IF Len(wps) > 0 THEN Last(wps).Timestamp ELSE ZeroTime]

\* a restricted branch that leaves out the since test of line 548
updatesRestrictedIgnoringSince(wps, sinceParam, since) ==
    LET allWaypoints == allLatLng(wps)
    IN  IF Len(allWaypoints) > 0
        THEN LET keepCount == updatesKeepCount(allWaypoints)
             IN  [waypoints |-> SubSeq(allWaypoints, 1, keepCount),
                  lastModified |-> IF Len(wps) > 0 /\ keepCount > 0
                                   THEN wps[keepCount].Timestamp
                                   ELSE ZeroTime]
        ELSE [waypoints |-> <<>>, lastModified |-> ZeroTime]

\* lines 522-556: the branch of a caller without a valid code
updatesRestricted(wps, sinceParam, since) ==
    LET allWaypoints == allLatLng(wps)
    IN  IF Len(allWaypoints) > 0
        THEN LET keepCount == updatesKeepCount(allWaypoints)
             IN  [waypoints |-> sinceFilter(updatesEligible(wps, FALSE),
                                            sinceParam, since),
                  lastModified |-> IF Len(wps) > 0 /\ keepCount > 0
                                   THEN wps[keepCount].Timestamp
                                   ELSE ZeroTime]
        ELSE [waypoints |-> <<>>, lastModified |-> ZeroTime]

\* lines 559-565 (and 618-621)
imageData(images) ==
    [f \in DOMAIN images |-> <<images[f].Latitude, images[f].Longitude>>]

\* a handler that validates since only after it has read the access codes
updatesResponseLateParse(sinceParam, code) ==
    LET parsed == IF sinceParam # "" THEN parseRFC3339(sinceParam)
                  ELSE [err |-> FALSE, time |-> ZeroTime]
        hasValidCode == code \in codes
    IN  IF parsed.err
        THEN [kind |-> "updates", status |-> 400, sinceParam |-> sinceParam,
              code |-> code, locks |-> <<"codesMutex">>,
              body |-> "Invalid 'since' timestamp format, use RFC3339"]
        ELSE LET result == IF hasValidCode
                           THEN updatesFull(waypoints, sinceParam, parsed.time)
                           ELSE updatesRestricted(waypoints, sinceParam, parsed.time)
             IN  [kind |-> "updates", status |-> 200, sinceParam |-> sinceParam,
                  code |-> code, locks |-> <<"codesMutex", "wpMutex", "imagesMutex">>,
                  hasValidCode |-> hasValidCode,
                  waypoints |-> result.waypoints,
                  images |-> imageData(imageLocations),
                  lastModified |-> result.lastModified]

\* the response of handleUpdates; locks lists the mutexes the handler has
\* acquired, in order
updatesResponse(sinceParam, code) ==
    LET parsed == IF sinceParam # "" THEN parseRFC3339(sinceParam)
                  ELSE [err |-> FALSE, time |-> ZeroTime]
    IN  IF parsed.err
        THEN [kind |-> "updates", status |-> 400, sinceParam |-> sinceParam,
              code |-> code, locks |-> <<>>,
              body |-> "Invalid 'since' timestamp format, use RFC3339"]
        ELSE LET hasValidCode == lookupCode(code)
                 result == IF hasValidCode
                           THEN updatesFull(waypoints, sinceParam, parsed.time)
                           ELSE updatesRestricted(waypoints, sinceParam, parsed.time)
             IN  [kind |-> "updates", status |-> 200, sinceParam |-> sinceParam,
                  code |-> code, locks |-> <<"codesMutex", "wpMutex", "imagesMutex">>,
                  hasValidCode |-> hasValidCode,
                  waypoints |-> result.waypoints,
                  images |-> imageData(imageLocations),
                  lastModified |-> result.lastModified]

handleUpdates ==
    /\ mainPC = "serving"
    /\ Idle
    /\ \E sinceParam \in SinceParams, code \in RequestCodes :
          resp' = updatesResponse(sinceParam, code)
    /\ poll' = NoPoll
    /\ UNCHANGED <<client, sync, tt, loaded, mainPC, waypoints, latestWaypoint, imageLocations, codes,
                   tokenDeleted, lastToken>>

-----------------------------------------------------------------------------
(* handleIndex *)

\* lines 598-609
indexWaypoints(wps, exists) ==
    LET all == allLatLng(wps)
    IN  IF ~exists /\ Len(all) > 0
        THEN LET i == geofenceScan(all, Last(all), Len(all) - 1)
             IN  SubSeq(all, 1, i + 1)
        ELSE all

indexResponse(code) ==
    LET exists == lookupCode(code)
    IN  [kind |-> "index", status |-> 200, code |-> code,
         locks |-> <<"imagesMutex", "wpMutex", "codesMutex">>,
         hasValidCode |-> exists,
         waypoints |-> indexWaypoints(waypoints, exists),
         images |-> imageData(imageLocations)]

handleIndex ==
    /\ mainPC = "serving"
    /\ Idle
    /\ \E code \in RequestCodes : resp' = indexResponse(code)
    /\ poll' = NoPoll
    /\ UNCHANGED <<client, sync, tt, loaded, mainPC, waypoints, latestWaypoint, imageLocations, codes,
                   tokenDeleted, lastToken>>

-----------------------------------------------------------------------------
(* The program *)

Init ==
    /\ mainPC = "start"
    /\ waypoints = <<>>
    /\ latestWaypoint = NilTime
    /\ imageLocations = <<>>
    /\ codes = {}
    /\ tokenDeleted = FALSE
    /\ lastToken = <<>>
    /\ resp = NoResponse
    /\ poll = NoPoll
    /\ loaded = NoLoad
    /\ client = NoClient
    /\ sync = NoSync
    /\ tt = NoTest

Next ==
    \/ main
    \/ periodicImageScan
    \/ periodicWaypointScan
    \/ handleUpdates
    \/ handleIndex
    \/ Observe

Spec == Init /\ [][Next]_vars

-----------------------------------------------------------------------------
(* The program while the tracking token stays valid: tracking_token.txt   *)
(* holds one token and the feed answers it with a position or fails       *)

StableTokenReads == {[err |-> FALSE, data |-> <<"t", "\n">>]}

StableFeed == {f \in FeedOutcomes : f.kind \in {"ok", "geterror"}}

NextQuery ==
    \/ main
    \/ periodicImageScan
    \/ waypointScanTick(ReadFile(CodesFiles), StableTokenReads, StableFeed)
    \/ handleUpdates
    \/ handleIndex
    \/ Observe

SpecQuery == Init /\ [][NextQuery]_vars

-----------------------------------------------------------------------------
(* The writers of the Track: the initial load and the poll loop, with one *)
(* token, an unreadable codes.txt and every answer of the feed            *)

UnreadableFile == {[err |-> TRUE, data |-> <<>>]}

NextFeed ==
    \/ main
    \/ waypointScanTick(UnreadableFile, StableTokenReads, FeedOutcomes)
    \/ Observe

SpecFeed == Init /\ [][NextFeed]_vars

-----------------------------------------------------------------------------
(* The poll loop while tracking_token.txt changes and the feed refuses the *)
(* token                                                                   *)

RefusingFeed == {f \in FeedOutcomes : f.kind \in {"notfound", "geterror"}}

NextToken ==
    \/ main
    \/ waypointScanTick(UnreadableFile, ReadFile(TokenFiles), RefusingFeed)
    \/ Observe

SpecToken == Init /\ [][NextToken]_vars

-----------------------------------------------------------------------------
(* A client with a valid code that polls /api/updates: its first request   *)
(* has no since, every later one sends the lastModified of the response    *)
(* before it                                                               *)

ClientCode == <<"a">>

ListedCodes == {[err |-> FALSE, data |-> <<"a", "\n">>]}

clientQuery ==
    /\ mainPC = "serving"
    /\ Idle
    /\ lookupCode(ClientCode)
    /\ LET response == updatesResponse(client.since, ClientCode)
       IN  /\ resp' = response
           /\ client' = [since |-> formatRFC3339(response.lastModified),
                         received |-> client.received \o response.waypoints]
    /\ poll' = NoPoll
    /\ UNCHANGED <<sync, tt, loaded, mainPC, waypoints, latestWaypoint,
                   imageLocations, codes, tokenDeleted, lastToken>>

NextCursor ==
    \/ main
    \/ waypointScanTick(ListedCodes, StableTokenReads, StableFeed)
    \/ clientQuery
    \/ Observe

SpecCursor == Init /\ [][NextCursor]_vars

-----------------------------------------------------------------------------
(* The goroutines at the level of the mutexes.  Each function is the set   *)
(* of its paths; a path is the sequence of its mutex operations and of     *)
(* its accesses to the fields of App, in program order.  Of the data only  *)
(* imageLocations is carried along here.                                   *)

Lock(m) == [op |-> "Lock", on |-> m]

Unlock(m) == [op |-> "Unlock", on |-> m]

RLock(m) == [op |-> "RLock", on |-> m]

RUnlock(m) == [op |-> "RUnlock", on |-> m]

Read(field) == [op |-> "read", on |-> field]

Write(field) == [op |-> "write", on |-> field]

\* filepath.WalkDir over imagesDir, with its outcome
WalkDir(outcome) == [op |-> "WalkDir", on |-> outcome]

\* the go statements of main
Go == [op |-> "go", on |-> "goroutines"]

\* lines 178-188; the first path is the one of a non-empty prunedWaypoints
loadWaypointsPaths ==
    { <<Write("latestWaypoint"),
        Lock("wpMutex"), Write("waypoints"), Unlock("wpMutex")>>,
      <<Lock("wpMutex"), Write("waypoints"), Unlock("wpMutex")>> }

\* a scan that installs what it has built when the walk fails
scanImagesInstallOnError ==
    { <<WalkDir("error"),
        Lock("imagesMutex"), Write("imageLocations"), Unlock("imagesMutex")>>,
      <<WalkDir("ok"),
        Lock("imagesMutex"), Write("imageLocations"), Unlock("imagesMutex")>> }

\* lines 233-266
scanImagesPaths ==
    { <<WalkDir("error")>>,
      <<WalkDir("ok"),
        Lock("imagesMutex"), Write("imageLocations"), Unlock("imagesMutex")>> }

\* lines 68-73
mainPaths ==
    {l \o s \o <<Go>> : l \in loadWaypointsPaths, s \in scanImagesPaths}

\* lines 318-339: codes.txt unreadable or blank, or merged into app.codes
refreshCodesPaths ==
    { <<>>,
      <<Lock("codesMutex"), Read("codes"), Write("codes"), Unlock("codesMutex")>> }

\* lines 341-405: no waypoint with a Location fetched, one rejected, one
\* appended
pollFeedPaths ==
    { <<>>,
      <<Lock("wpMutex"), Read("latestWaypoint"), Unlock("wpMutex")>>,
      <<Lock("wpMutex"), Read("latestWaypoint"),
        Write("waypoints"), Write("latestWaypoint"), Unlock("wpMutex")>> }

periodicWaypointScanPaths ==
    {c \o f : c \in refreshCodesPaths, f \in pollFeedPaths}

\* lines 486-565: the 400 answer, or the three reads
handleUpdatesPaths ==
    { <<>>,
      <<RLock("codesMutex"), Read("codes"), RUnlock("codesMutex"),
        RLock("wpMutex"), Read("waypoints"), RUnlock("wpMutex"),
        RLock("imagesMutex"), Read("imageLocations"), RUnlock("imagesMutex")>> }

\* a handleIndex that keeps imagesMutex while it reads the waypoints
handleIndexNested ==
    { <<RLock("imagesMutex"), Read("imageLocations"),
        RLock("wpMutex"), Read("waypoints"), RUnlock("wpMutex"),
        RUnlock("imagesMutex"),
        RLock("codesMutex"), Read("codes"), RUnlock("codesMutex")>> }

\* lines 583-610
handleIndexPaths ==
    { <<RLock("imagesMutex"), Read("imageLocations"), RUnlock("imagesMutex"),
        RLock("wpMutex"), Read("waypoints"), RUnlock("wpMutex"),
        RLock("codesMutex"), Read("codes"), RUnlock("codesMutex")>> }

Code(p) ==
    CASE p = "main" -> mainPaths
      [] p = "periodicImageScan" -> scanImagesPaths
      [] p = "periodicWaypointScan" -> periodicWaypointScanPaths
      [] p = "handleUpdates" -> handleUpdatesPaths
      [] p = "handleIndex" -> handleIndexPaths

\* the mutexes p holds, for writing or for reading
held(p) == {m \in Mutexes : p \in sync.writer[m] \cup sync.readers[m]}

\* sync.RWMutex: whether p can execute the instruction now
canExec(p) ==
    /\ sync.todo[p] # <<>>
    /\ LET i == Head(sync.todo[p])
       IN  /\ i.op = "Lock" =>
                 sync.writer[i.on] = {} /\ sync.readers[i.on] = {}
           /\ i.op = "RLock" => sync.writer[i.on] = {}

\* a goroutine enters its function: main once, a background loop at a tick,
\* a handler at a request
start(p) ==
    /\ sync.todo[p] = <<>>
    /\ mainPC = IF p = "main" THEN "start" ELSE "serving"
    /\ \E path \in Code(p) \ {<<>>} :
          sync' = [sync EXCEPT !.todo[p] = path]
    /\ UNCHANGED <<mainPC, waypoints, latestWaypoint, imageLocations, codes,
                   tokenDeleted, lastToken, resp, poll, loaded, client, tt>>

\* a goroutine executes its next instruction
exec(p) ==
    /\ canExec(p)
    /\ LET i == Head(sync.todo[p])
       IN  /\ \E built \in IF i.op = "WalkDir" THEN ImageMaps
                            ELSE {sync.newGPSData} :
                 sync' = [sync EXCEPT
                     !.todo[p] = Tail(sync.todo[p]),
                     !.writer = IF i.op = "Lock"
                                THEN [sync.writer EXCEPT ![i.on] = {p}]
                                ELSE IF i.op = "Unlock"
                                THEN [sync.writer EXCEPT ![i.on] = {}]
                                ELSE sync.writer,
                     !.readers = IF i.op = "RLock"
                                 THEN [sync.readers EXCEPT ![i.on] = @ \cup {p}]
                                 ELSE IF i.op = "RUnlock"
                                 THEN [sync.readers EXCEPT ![i.on] = @ \ {p}]
                                 ELSE sync.readers,
                     !.newGPSData = built,
                     !.walkErr = IF i.op = "WalkDir" THEN i.on = "error"
                                 ELSE sync.walkErr]
           /\ imageLocations' = IF i = Write("imageLocations")
                                THEN sync.newGPSData
                                ELSE imageLocations
           /\ mainPC' = IF i = Go THEN "serving" ELSE mainPC
    /\ UNCHANGED <<waypoints, latestWaypoint, codes, tokenDeleted, lastToken,
                   resp, poll, loaded, client, tt>>

NextLocks == \E p \in Procs : start(p) \/ exec(p)

SpecLocks == Init /\ [][NextLocks]_vars

-----------------------------------------------------------------------------
(* loadWaypoints on its own: the data directory and the FIT directory hold *)
(* at most MaxMerge records together, at one position or without one       *)

MaxMerge == 3

MergeRecord == [Location : {Coords(0), NilLocation}, Timestamp : Times]

startupLoad ==
    /\ mainPC = "start"
    /\ \E dataFiles \in SeqsUpTo(MergeRecord, MaxMerge) :
          \E fitRecords \in SeqsUpTo(MergeRecord, MaxMerge - Len(dataFiles)) :
             loadWaypoints(dataFiles, fitRecords)
    /\ mainPC' = "loaded"
    /\ UNCHANGED <<imageLocations, codes, tokenDeleted, lastToken, resp, poll,
                   client, sync, tt>>

SpecLoad == Init /\ [][startupLoad]_vars

-----------------------------------------------------------------------------
(* pruneWaypoints on its own: every timestamp-ordered sequence of at most *)
(* MaxPrune located waypoints is a test case                               *)

MaxPrune == 3

\* latitudes 1 apart, so that neighbours are closer than minDistanceKm
PrunePositions == {0, 1, 2, 3}

PruneWaypoint == [Location : {Coords(p) : p \in PrunePositions}, Timestamp : Times]

PruneCases ==
    {wps \in SeqsUpTo(PruneWaypoint, MaxPrune) :
        \A i \in 1..Len(wps) - 1 : wps[i].Timestamp <= wps[i + 1].Timestamp}

InitPrune ==
    /\ mainPC = "start"
    /\ waypoints = <<>>
    /\ latestWaypoint = NilTime
    /\ imageLocations = <<>>
    /\ codes = {}
    /\ tokenDeleted = FALSE
    /\ lastToken = <<>>
    /\ resp = NoResponse
    /\ poll = NoPoll
    /\ loaded = NoLoad
    /\ client = NoClient
    /\ sync = NoSync
    /\ \E wps \in PruneCases : tt = [NoTest EXCEPT !.waypoints = wps]

SpecPrune == InitPrune /\ [][TestPruneWaypoints]_vars

-----------------------------------------------------------------------------
(* Properties *)

Updates200 == resp.kind = "updates" /\ resp.status = 200

RestrictedUpdates == Updates200 /\ ~resp.hasValidCode

\* the since value of the request resp answers
sinceOf(r) == parseRFC3339(r.sinceParam).time

\* distance between two [lat, lng] pairs
pairDistance(a, b) == distanceKm(a[1], a[2], b[1], b[2])

\* the indices of the waypoints farther than the radius from the last one
Beyond(wps) ==
    {j \in 1..Len(wps) : pairDistance(LatLng(Last(wps)), LatLng(wps[j])) > radiusKm}

Max(S) == CHOOSE x \in S : \A y \in S : y <= x

\* the Geofence Filter of the specification: the waypoints after the last
\* one that is beyond the radius
geofenceSuffix(wps) ==
    IF Len(wps) = 0 \/ Beyond(wps) = {} THEN wps
    ELSE SubSeq(wps, Max(Beyond(wps)) + 1, Len(wps))

\* a is b with some elements left out
RECURSIVE IsSubsequence(_, _)
IsSubsequence(a, b) ==
    IF a = <<>> THEN TRUE
    ELSE IF b = <<>> THEN FALSE
    ELSE IF Head(a) = Head(b) THEN IsSubsequence(Tail(a), Tail(b))
    ELSE IsSubsequence(a, Tail(b))

\* C1: every waypoint handleUpdates returns to a caller without a valid code
\* lies within the radius of the Track's last waypoint, whatever since is.
C1_RestrictedWithinRadius ==
    RestrictedUpdates =>
        \A k \in 1..Len(resp.waypoints) :
            pairDistance(resp.waypoints[k], LatLng(Last(waypoints))) <= radiusKm

\* C2: when some waypoint is beyond the radius of the last one, a caller
\* without a valid code who sends no since gets exactly the waypoints after
\* the last waypoint that is beyond the radius.
C2_EligibleIsSuffix ==
    (RestrictedUpdates /\ resp.sinceParam = "" /\ Len(waypoints) > 0
       /\ Beyond(waypoints) # {}) =>
        resp.waypoints = allLatLng(geofenceSuffix(waypoints))

\* C3: when every waypoint of a non-empty Track is within the radius of the
\* last one, a caller without a valid code who sends no since gets the
\* whole Track, as a caller with a valid code does.
C3_AllWithinReturnsTrack ==
    (RestrictedUpdates /\ resp.sinceParam = "" /\ Len(waypoints) > 0
       /\ Beyond(waypoints) = {}) =>
        /\ resp.waypoints = allLatLng(waypoints)
        /\ resp.waypoints = updatesFull(waypoints, "", ZeroTime).waypoints

C3_Witness ==
    /\ RestrictedUpdates /\ resp.sinceParam = ""
    /\ Len(waypoints) >= 2 /\ Beyond(waypoints) = {}
    /\ Len(resp.waypoints) = Len(waypoints)

\* C4: for the same Track and the same since, what a caller without a valid
\* code gets is a subsequence of what a caller with a valid code gets.
C4_RestrictedSubsequenceOfFull ==
    RestrictedUpdates =>
        IsSubsequence(resp.waypoints,
                      updatesFull(waypoints, resp.sinceParam, sinceOf(resp)).waypoints)

C4_Witness ==
    /\ RestrictedUpdates /\ resp.sinceParam # ""
    /\ Len(resp.waypoints) >= 1
    /\ Len(resp.waypoints)
          < Len(updatesFull(waypoints, resp.sinceParam, sinceOf(resp)).waypoints)
    /\ Len(updatesFull(waypoints, resp.sinceParam, sinceOf(resp)).waypoints)
          < Len(waypoints)

\* C5: a request is served as a caller with a valid code exactly when its
\* code is in codes; the empty string is never in codes, so a request
\* without a code is always served as a caller without a valid code.
C5_TierIffCodeKnown ==
    /\ <<>> \notin codes
    /\ Updates200 =>
          /\ resp.hasValidCode <=> resp.code \in codes
          /\ resp.code = <<>> => ~resp.hasValidCode
          /\ resp.waypoints =
                IF resp.code \in codes
                THEN updatesFull(waypoints, resp.sinceParam, sinceOf(resp)).waypoints
                ELSE updatesRestricted(waypoints, resp.sinceParam,
                                       sinceOf(resp)).waypoints

C5_Witness ==
    /\ Updates200 /\ resp.code = <<>> /\ ~resp.hasValidCode
    /\ codes = {<<"a">>, <<"b">>}
    /\ Beyond(waypoints) # {}

\* C6: with since, handleUpdates returns exactly the eligible waypoints
\* whose timestamp is strictly after since, in Track order; without since
\* it returns every eligible waypoint.
C6_StrictlyAfterSince ==
    Updates200 =>
        LET eligible == updatesEligible(waypoints, resp.hasValidCode)
            keep(wp) == resp.sinceParam = "" \/ wp.Timestamp > sinceOf(resp)
        IN  resp.waypoints = allLatLng(SelectSeq(eligible, keep))

C6_Witness ==
    /\ Updates200 /\ resp.sinceParam # ""
    /\ \E j \in 1..Len(waypoints) : waypoints[j].Timestamp = sinceOf(resp)
    /\ Len(resp.waypoints) = 1
    /\ Len(updatesEligible(waypoints, resp.hasValidCode)) >= 2

\* C7: lastModified is the timestamp of the last eligible waypoint (the zero
\* time when there is none), the same for every since; for a caller with a
\* valid code and a non-empty Track it is the timestamp of the last waypoint.
C7_LastModifiedOfEligible ==
    Updates200 =>
        LET eligible == updatesEligible(waypoints, resp.hasValidCode)
        IN  /\ resp.lastModified =
                  IF Len(eligible) > 0 THEN Last(eligible).Timestamp ELSE ZeroTime
            /\ \A s \in SinceParams :
                  ~parseRFC3339(s).err \/ s = "" =>
                      updatesResponse(s, resp.code).lastModified = resp.lastModified
            /\ (resp.hasValidCode /\ Len(waypoints) > 0) =>
                  resp.lastModified = Last(waypoints).Timestamp

C7_Witness ==
    /\ Updates200 /\ resp.sinceParam # ""
    /\ Len(waypoints) >= 2
    /\ resp.waypoints = <<>>
    /\ resp.lastModified # ZeroTime

\* C8: a request whose since is not an RFC3339 timestamp, and no other, is
\* answered 400; the handler has then acquired no mutex, has left the
\* shared state unchanged and returns no waypoints, images or lastModified,
\* whatever its code.
C8_MalformedSinceRejected ==
    [][(resp'.kind = "updates" /\ resp.kind # "updates") =>
         /\ resp'.status = 400 <=>
               (resp'.sinceParam # "" /\ parseRFC3339(resp'.sinceParam).err)
         /\ resp'.status = 400 =>
               /\ resp'.locks = <<>>
               /\ DOMAIN resp' \cap {"waypoints", "images", "lastModified"} = {}
               /\ UNCHANGED <<waypoints, latestWaypoint, codes, imageLocations>>]_vars

C8_Witness ==
    /\ resp.kind = "updates" /\ resp.status = 400
    /\ resp.code \in codes
    /\ Len(waypoints) > 0

\* C9: for the same Track and the same code, handleIndex and handleUpdates
\* without since expose the same waypoints.
C9_IndexAgreesWithUpdates ==
    (Updates200 /\ resp.sinceParam = "") =>
        resp.waypoints = indexResponse(resp.code).waypoints

\* C10: pruneWaypoints returns, for a non-empty input, a non-empty sequence
\* that starts with the input's first waypoint, and returns an input of at
\* most one waypoint unchanged.
C10_PruneKeepsFirst ==
    tt.called =>
        /\ Len(tt.waypoints) > 0 =>
              Len(tt.result) > 0 /\ tt.result[1] = tt.waypoints[1]
        /\ Len(tt.waypoints) <= 1 => tt.result = tt.waypoints

C10_Witness ==
    /\ tt.called
    /\ Len(tt.waypoints) = 3
    /\ Len(tt.result) = 2
    /\ tt.result[1] = tt.waypoints[1]
    /\ tt.result[2] = tt.waypoints[3]

-----------------------------------------------------------------------------
(* Properties of pruneWaypoints *)

\* distance between two waypoints that carry a coordinate
wpDistance(a, b) ==
    distanceKm(a.Location.Latitude, a.Location.Longitude,
               b.Location.Latitude, b.Location.Longitude)

\* a distance of the model (0.01 km) in meters
meters(d) == d * 10

\* the threshold named by the comments of pruneWaypoints and by the test
\* case "waypoints exactly 5 meters apart"
fiveMeters == 5

\* the elements of wps at the indices K, in order
Restrict(wps, K) ==
    [j \in 1..Cardinality(K) |->
        wps[CHOOSE k \in K : Cardinality({m \in K : m <= k}) = j]]

\* the index in K of the element retained last before index i
lastKeptBefore(K, i) == Max({k \in K : k < i})

\* K is the set of indices a greedy pass with the given threshold retains:
\* the first, and every later one at least the threshold away from the
\* element retained last before it
GreedyRetained(wps, K, thresholdMeters) ==
    /\ 1 \in K
    /\ \A i \in 2..Len(wps) :
          i \in K <=>
              meters(wpDistance(wps[lastKeptBefore(K \cup {1}, i)], wps[i]))
                  >= thresholdMeters

C13_RemovesOnlyWithinFiveMeters ==
    (tt.called /\ Len(tt.waypoints) >= 1) =>
        LET wps == tt.waypoints
        IN  \E K \in SUBSET (1..Len(wps)) :
                /\ 1 \in K
                /\ tt.result = Restrict(wps, K)
                /\ \A i \in (2..Len(wps)) \ K :
                      meters(wpDistance(wps[lastKeptBefore(K, i)], wps[i]))
                          < fiveMeters

-----------------------------------------------------------------------------
(* Properties of the Track and its writers *)

\* how often w occurs in the sequence wps
Count(wps, w) == Cardinality({i \in 1..Len(wps) : wps[i] = w})

\* C14: when loadWaypoints has read at least one FIT waypoint, an archived
\* waypoint (with a coordinate) is in allWaypoints exactly when its timestamp
\* is strictly after the latest FIT timestamp, and every FIT waypoint is in
\* it; when it has read none, every archived waypoint is in it.  So an
\* archived waypoint timed between two FIT waypoints is left out.
C14_MergeKeepsNewerArchived ==
    loaded.done =>
        LET json == loaded.jsonWaypoints
            fit == loaded.fitWaypoints
            enters(w) ==
                \A i \in 1..Len(fit) : w.Timestamp > fit[i].Timestamp
        IN  /\ Len(loaded.allWaypoints)
                  = Len(fit) + Len(SelectSeq(json, enters))
            /\ \A w \in Waypoint :
                  Count(loaded.allWaypoints, w)
                      = Count(fit, w) + (IF enters(w) THEN Count(json, w) ELSE 0)

C14_Witness ==
    /\ loaded.done
    /\ Len(loaded.fitWaypoints) = 2
    /\ Len(loaded.jsonWaypoints) = 1
    /\ \E i, j \in 1..2 :
          /\ loaded.fitWaypoints[i].Timestamp < loaded.jsonWaypoints[1].Timestamp
          /\ loaded.jsonWaypoints[1].Timestamp < loaded.fitWaypoints[j].Timestamp
    /\ Len(loaded.allWaypoints) = 2

\* C15: a tick that has fetched a waypoint appends it to the Track exactly
\* when it has a Location and the Watermark is unset or earlier than its
\* timestamp; a waypoint timed at the Watermark is not appended; the step
\* that appends it sets the Watermark to its timestamp, and a step that
\* does not append leaves Track and Watermark alone.
C15_LiveAdmission ==
    [][\A c \in poll'.fetched :
          LET accept == /\ c.Location # NilLocation
                        /\ (latestWaypoint = NilTime
                              \/ c.Timestamp > latestWaypoint)
          IN  /\ accept =>
                    /\ waypoints' = Append(waypoints, c)
                    /\ latestWaypoint' = c.Timestamp
              /\ ~accept => UNCHANGED <<waypoints, latestWaypoint>>
              /\ c.Timestamp = latestWaypoint => waypoints' = waypoints]_vars

C15_Witness ==
    /\ poll.fetched # {}
    /\ \A c \in poll.fetched :
          /\ c.Location # NilLocation
          /\ c.Timestamp = latestWaypoint
          /\ Len(waypoints) >= 2
          /\ Last(waypoints) # c

\* C16: codes only grows: whatever a tick reads from codes.txt (nothing, an
\* empty file, a file without a code it listed before), every code that
\* was in codes is still in it, so a code that the handlers look up as
\* valid they look up as valid in every later state.
C16_CodesOnlyGrow ==
    [][/\ codes \subseteq codes'
       /\ \A code \in RequestCodes : lookupCode(code) => lookupCode(code)']_vars

C16_Witness ==
    /\ codes = {<<"a">>, <<"b">>}
    /\ Updates200 /\ resp.hasValidCode /\ resp.code = <<"b">>
    /\ Len(waypoints) >= 4

\* wps is ordered non-decreasing by Timestamp
OrderedByTimestamp(wps) ==
    \A i \in 1..Len(wps) - 1 : wps[i].Timestamp <= wps[i + 1].Timestamp

\* C17: the Track is ordered non-decreasing by Timestamp before and after
\* every step (the load, accepting and rejecting ticks), and a waypoint the
\* poll loop appends has a Timestamp strictly greater than that of every
\* waypoint already in the Track.
C17_TrackOrdered ==
    [][/\ OrderedByTimestamp(waypoints)
       /\ OrderedByTimestamp(waypoints')
       /\ (mainPC = "serving" /\ waypoints' # waypoints) =>
             /\ waypoints' = Append(waypoints, Last(waypoints'))
             /\ \A i \in 1..Len(waypoints) :
                   waypoints[i].Timestamp < Last(waypoints').Timestamp]_vars

C17_Witness ==
    /\ Len(waypoints) = 4
    /\ waypoints[1].Timestamp = waypoints[2].Timestamp
    /\ Last(waypoints) \in poll.fetched
    /\ waypoints[3].Timestamp < waypoints[4].Timestamp

\* C18: a non-empty Track has the Watermark set to the Timestamp of its last
\* waypoint, and an empty Track (at the start and after a load that found
\* nothing) has the Watermark unset.
C18_WatermarkIsLastTimestamp ==
    /\ Len(waypoints) > 0 => latestWaypoint = Last(waypoints).Timestamp
    /\ Len(waypoints) = 0 => latestWaypoint = NilTime

C18_Witness ==
    /\ loaded.done
    /\ Len(loaded.allWaypoints) = 2
    /\ Len(waypoints) = 1
    /\ loaded.allWaypoints[2].Timestamp > waypoints[1].Timestamp
    /\ latestWaypoint = waypoints[1].Timestamp

\* C19: in every reachable state, whatever the poll loop has appended, two
\* consecutive waypoints of the Track are at least minDistanceKm apart.
C19_TrackPairsApart ==
    \A i \in 1..Len(waypoints) - 1 :
        wpDistance(waypoints[i], waypoints[i + 1]) >= minDistanceKm

\* C20: every waypoint of the Track has a Location: neither the load nor the
\* poll loop puts one without a Location into it, so the handlers never
\* read the Latitude of a missing Location.
C20_TrackHasCoordinates ==
    \A i \in 1..Len(waypoints) : waypoints[i].Location \in GPSCoords

C20_Witness ==
    /\ Len(waypoints) = 1
    /\ \E c \in poll.fetched :
          /\ c.Location = NilLocation
          /\ c.Timestamp > latestWaypoint
    /\ poll.wrote = {}

-----------------------------------------------------------------------------
(* Properties of the poll loop and of a polling client *)

\* a is an initial part of b
IsPrefix(a, b) == Len(a) <= Len(b) /\ SubSeq(b, 1, Len(a)) = a

\* C21: once the load is done the Track only grows at its end: each step
\* leaves the waypoints it held in place, unchanged and in order, and adds
\* at most one.
C21_TrackAppendOnly ==
    [][mainPC = "serving" =>
         /\ IsPrefix(waypoints, waypoints')
         /\ Len(waypoints') <= Len(waypoints) + 1]_vars

C21_Witness ==
    /\ Len(waypoints) = 3
    /\ Last(waypoints) \in poll.fetched
    /\ waypoints[2].Location = waypoints[3].Location
    /\ waypoints[1].Location # waypoints[2].Location

\* C24: a tick whose fetched waypoint is not admitted (it has no Location,
\* or is not timed strictly after the Watermark) changes neither Track nor
\* Watermark and writes no file; a file is written only for a waypoint
\* that was appended.
C24_RejectedLeavesNoTrace ==
    [][\A c \in poll'.fetched :
          ~(carriesCoordinate(c) /\ admits(latestWaypoint, c)) =>
              /\ UNCHANGED <<waypoints, latestWaypoint>>
              /\ poll'.wrote = {}]_vars

\* C25: a tick on which the feed answers "not found" sets tokenDeleted; while
\* it is set, a tick that does not read a different token sends no
\* request and leaves it set; a tick that reads a different token sends a
\* request with that token.
C25_NotFoundSuppressesPolling ==
    [][/\ poll'.answer = "notfound" => tokenDeleted'
       /\ (tokenDeleted /\ lastToken' = lastToken) =>
             poll'.requested = {} /\ tokenDeleted'
       /\ lastToken' # lastToken => poll'.requested = {lastToken'}]_vars

C25_Witness ==
    /\ poll.answer = "notfound"
    /\ poll.requested = {<<"u">>}
    /\ lastToken = <<"u">>
    /\ tokenDeleted
    /\ Len(waypoints) = 2

\* C26: the waypoints a client with a valid code has received, by a first
\* request without since and later requests with since set to the
\* lastModified of the response before, are always the first waypoints of
\* the Track, each once and in Track order, and right after a response
\* they are the whole Track, whatever the poll loop appended in between.
C26_CursorDeliversTrackOnce ==
    /\ IsPrefix(client.received, allLatLng(waypoints))
    /\ (Updates200 /\ resp.code = ClientCode /\ resp.hasValidCode) =>
          client.received = allLatLng(waypoints)

C26_Witness ==
    /\ Updates200 /\ resp.sinceParam # ""
    /\ Len(resp.waypoints) = 1
    /\ Len(client.received) = 4
    /\ waypoints[1].Timestamp = waypoints[2].Timestamp
    /\ waypoints[3].Location = waypoints[4].Location

\* C28: no tick sends a feed request with an empty token.
C28_NoRequestWithEmptyToken == <<>> \notin poll.requested

-----------------------------------------------------------------------------
(* Properties of the mutexes *)

\* this step is p executing instruction i
Executes(p, i) ==
    /\ sync.todo[p] # <<>>
    /\ Head(sync.todo[p]) = i
    /\ sync'.todo[p] = Tail(sync.todo[p])

\* the instructions of a path up to its first Unlock
RECURSIVE criticalSection(_)
criticalSection(path) ==
    IF path = <<>> \/ Head(path).op = "Unlock" THEN {}
    ELSE {Head(path)} \cup criticalSection(Tail(path))

TrackFields == {"waypoints", "latestWaypoint"}

\* C22: every write of waypoints or latestWaypoint, in loadWaypoints as in
\* the poll loop, is made by the goroutine that holds wpMutex for writing;
\* a section under that lock that writes one of them writes the other;
\* every read of either is made while holding wpMutex, at least for
\* reading.
C22_TrackAccessUnderLock ==
    [][\A p \in Procs :
          /\ \A f \in TrackFields :
                /\ Executes(p, Write(f)) => sync.writer["wpMutex"] = {p}
                /\ Executes(p, Read(f)) => "wpMutex" \in held(p)
          /\ Executes(p, Lock("wpMutex")) =>
                LET section == criticalSection(Tail(sync.todo[p]))
                IN  Write("waypoints") \in section
                        <=> Write("latestWaypoint") \in section]_vars

\* C23: no goroutine holds two of the three mutexes at once; a goroutine
\* that has left its function holds none; and a goroutine that waits for
\* a mutex waits for goroutines that can all go on, so that no
\* interleaving ends in a deadlock.
C23_OneMutexAtATime ==
    \A p \in Procs :
        /\ Cardinality(held(p)) <= 1
        /\ sync.todo[p] = <<>> => held(p) = {}
        /\ (sync.todo[p] # <<>> /\ ~canExec(p)) =>
              LET m == Head(sync.todo[p]).on
              IN  /\ held(p) = {}
                  /\ sync.writer[m] \cup sync.readers[m] # {}
                  /\ \A q \in sync.writer[m] \cup sync.readers[m] : canExec(q)

C23_Witness ==
    /\ sync.todo["periodicWaypointScan"] # <<>>
    /\ Head(sync.todo["periodicWaypointScan"]) = Lock("wpMutex")
    /\ sync.readers["wpMutex"] = {"handleUpdates", "handleIndex"}
    /\ sync.writer["imagesMutex"] = {"periodicImageScan"}

\* C27: imageLocations changes only in one step, by the goroutine that
\* holds imagesMutex for writing while nobody reads, to the map a walk
\* that did not fail has built beforehand; a handler reads it only while
\* holding imagesMutex for reading, with no writer inside.  So a reader
\* sees the map of the last scan that succeeded, whole.
C27_ImageMapSwappedWhole ==
    [][/\ imageLocations' # imageLocations =>
             \E p \in Procs :
                 /\ Executes(p, Write("imageLocations"))
                 /\ sync.writer["imagesMutex"] = {p}
                 /\ sync.readers["imagesMutex"] = {}
                 /\ ~sync.walkErr
                 /\ imageLocations' = sync.newGPSData
       /\ \A p \in Procs :
             Executes(p, Read("imageLocations")) =>
                 /\ p \in sync.readers["imagesMutex"]
                 /\ sync.writer["imagesMutex"] = {}
       /\ \A p \in Procs :
             Executes(p, WalkDir("error")) =>
                 Write("imageLocations") \notin criticalSection(Tail(sync.todo[p]))]_vars

C27_Witness ==
    /\ sync.todo["handleUpdates"] # <<>>
    /\ Head(sync.todo["handleUpdates"]) = Read("imageLocations")
    /\ sync.todo["periodicImageScan"] # <<>>
    /\ Head(sync.todo["periodicImageScan"]) = Lock("imagesMutex")
    /\ imageLocations # <<>>
    /\ sync.newGPSData # <<>>
    /\ sync.newGPSData # imageLocations

====
